---- MODULE Spec2Model ----
(***************************************************************************)
(* Model of the transfer-learning example                                  *)
(* (pl_examples/domain_templates/computer_vision_fine_tuning.py) and of    *)
(* the AUROC mode test (tests/metrics/classification/test_auroc.py).       *)
(*                                                                         *)
(* Learning rates are powers of ten and are held as their exponent:        *)
(* 1e-2 is -2, multiplying by gamma = 1e-1 adds -1, dividing by 10 adds -1.*)
(* Python values that may be an int or a str are tagged records, so that   *)
(* the comparison 5 == '5' is False as it is in Python.                    *)
(***************************************************************************)
EXTENDS Integers, Sequences, FiniteSets, TLC

VARIABLES
    entry,          \* "script": main(get_args()); "api": the classes used directly
    argv,           \* the command line after the program name: a sequence of tokens
    given,          \* the two epochs the user means to give with --milestones, or << >>
    pc,             \* position of the run
    args,           \* the argparse Namespace (NoArgs before parse_args)
    model,          \* TransferLearningModel's hyper-parameter fields
    callback,       \* MilestonesFinetuningCallback's fields
    max_epochs,     \* Trainer.max_epochs
    requires_grad,  \* requires_grad of each class of parameters
    param_groups,   \* optimizer.param_groups: sequence of [params, lr]
    current_epoch,  \* trainer.current_epoch
    last_epoch,     \* scheduler.last_epoch
    unfrozen_at,    \* history: epochs at which unfreeze_and_add_param_group ran
    decayed_at,     \* history: scheduler epochs at which the learning rates changed
    metric_mode,    \* AUROC.mode (NoMode before the first update)
    metric_data,    \* AUROC.preds / AUROC.target: the accumulated batches
    metric_raised,  \* whether the last AUROC.update raised ValueError
    metric_last,    \* the batch the last AUROC.update was given (NoBatch before)
    metric_calls,   \* number of AUROC.update calls made
    test_pc         \* position of test_error_on_different_mode

vars == <<entry, argv, given, pc, args, model, callback, max_epochs, requires_grad,
          param_groups, current_epoch, last_epoch, unfrozen_at, decayed_at,
          metric_mode, metric_data, metric_raised, metric_last, metric_calls, test_pc>>

trainVars == <<entry, argv, given, pc, args, model, callback, max_epochs, requires_grad,
               param_groups, current_epoch, last_epoch, unfrozen_at, decayed_at>>

metricVars == <<metric_mode, metric_data, metric_raised, metric_last, metric_calls, test_pc>>

\* ------------------------------------------------------------------ bounds

\* Largest epoch milestone tried (as a user's option and in direct use).
MaxMilestone == 5

\* Largest max_epochs tried when the classes are used directly.
MaxEpochs == 7

\* Most batches one AUROC object is fed.
MaxUpdates == 4

\* Largest batch size of an AUROC update.
MaxBatch == 2

\* ------------------------------------------------------------------ Python values

PyInt(n) == [tag |-> "int", i |-> n, s |-> ""]

PyStr(c) == [tag |-> "str", i |-> 0, s |-> c]

\* Python's ==  between ints and strs: values of different types are unequal.
PyEq(a, b) == a.tag = b.tag /\ a.i = b.i /\ a.s = b.s

DigitChar == <<"0", "1", "2", "3", "4", "5", "6", "7", "8", "9">>

\* str(n) for 0 <= n < 100, as the sequence of its characters.
ToStr(n) ==
    IF n < 10 THEN <<DigitChar[n + 1]>>
    ELSE <<DigitChar[(n \div 10) + 1], DigitChar[(n % 10) + 1]>>

\* list(s) for a str s: the list of its one-character strings.
PyList(token) == [k \in 1..Len(token) |-> PyStr(token[k])]

\* ------------------------------------------------------------------ program constants

\* argparse defaults of add_model_specific_args
ArgEpochs == 15

ArgLr == -3

ArgGamma == -1

ArgMilestone0 == 2

ArgMilestone1 == 4

\* defaults of TransferLearningModel.__init__
InitLr == -2

InitGamma == -1

\* the values the module docstring gives
DocEpochs == 15

DocMilestone0 == 5

DocMilestone1 == 10

DocLr == -2

\* BaseFinetuning.unfreeze_and_add_param_group: initial_denom_lr = 10
DenomLr == -1

NoArgs == [parsed |-> FALSE]

MILESTONES_FLAG == <<"-", "-", "m", "i", "l", "e", "s", "t", "o", "n", "e", "s">>

\* ------------------------------------------------------------------ the network

\* feature_extractor[-5:] and feature_extractor[:-5], each with its BatchNorm
\* parameters and its other parameters; fc is the classifier.
LAST5 == {"last5_bn", "last5_w"}

REMAINING == {"rest_bn", "rest_w"}

FeatureExtractor == LAST5 \cup REMAINING

Params == FeatureExtractor \cup {"fc"}

IsBN(p) == p \in {"last5_bn", "rest_bn"}

\* __build_model: a freshly built network, every parameter trainable.
BuildModel == [p \in Params |-> TRUE]

\* BaseFinetuning.freeze(module, train_bn): BatchNorm layers stay trainable
\* when train_bn, every other parameter of the module is frozen.
Freeze(rg, module, train_bn) ==
    [p \in Params |-> IF p \in module THEN (IsBN(p) /\ train_bn) ELSE rg[p]]

\* BaseFinetuning.make_trainable(module)
MakeTrainable(rg, module) ==
    [p \in Params |-> IF p \in module THEN TRUE ELSE rg[p]]

\* BaseFinetuning.filter_params(module, train_bn, requires_grad=True): the
\* trainable parameters of the module, its BatchNorm ones left out when train_bn.
FilterParams(rg, module, train_bn) ==
    {p \in module : rg[p] /\ ~(IsBN(p) /\ train_bn)}

\* BaseFinetuning.unfreeze_and_add_param_group(module, optimizer, train_bn):
\* the new group's lr is the first group's current lr divided by 10.
UnfreezeAndAddParamGroup(rg, pgs, module, train_bn) ==
    LET rg2 == MakeTrainable(rg, module)
    IN  [rg  |-> rg2,
         pgs |-> Append(pgs, [params |-> FilterParams(rg2, module, train_bn),
                              lr     |-> pgs[1].lr + DenomLr])]

\* ------------------------------------------------------------------ the callback

NoRaise == "none"

\* finetunning_function without its elif branch: the second milestone is ignored.
finetunning_function_first_only(cb, rg, pgs, epoch) ==
    IF Len(cb.milestones) < 1
    THEN [rg |-> rg, pgs |-> pgs, raised |-> "IndexError", unfroze |-> FALSE]
    ELSE IF PyEq(PyInt(epoch), cb.milestones[1])
    THEN LET r == UnfreezeAndAddParamGroup(rg, pgs, LAST5, cb.train_bn)
         IN  [rg |-> r.rg, pgs |-> r.pgs, raised |-> NoRaise, unfroze |-> TRUE]
    ELSE [rg |-> rg, pgs |-> pgs, raised |-> NoRaise, unfroze |-> FALSE]

\* MilestonesFinetuningCallback.finetunning_function(pl_module, epoch, optimizer, opt_idx).
\* milestones[0] and milestones[1] raise IndexError on a list that is too short.
finetunning_function(cb, rg, pgs, epoch) ==
    IF Len(cb.milestones) < 1
    THEN [rg |-> rg, pgs |-> pgs, raised |-> "IndexError", unfroze |-> FALSE]
    ELSE IF PyEq(PyInt(epoch), cb.milestones[1])
    THEN LET r == UnfreezeAndAddParamGroup(rg, pgs, LAST5, cb.train_bn)
         IN  [rg |-> r.rg, pgs |-> r.pgs, raised |-> NoRaise, unfroze |-> TRUE]
    ELSE IF Len(cb.milestones) < 2
    THEN [rg |-> rg, pgs |-> pgs, raised |-> "IndexError", unfroze |-> FALSE]
    ELSE IF PyEq(PyInt(epoch), cb.milestones[2])
    THEN LET r == UnfreezeAndAddParamGroup(rg, pgs, REMAINING, cb.train_bn)
         IN  [rg |-> r.rg, pgs |-> r.pgs, raised |-> NoRaise, unfroze |-> TRUE]
    ELSE [rg |-> rg, pgs |-> pgs, raised |-> NoRaise, unfroze |-> FALSE]

\* MilestonesFinetuningCallback.freeze_before_training
freeze_before_training(cb, rg) == Freeze(rg, FeatureExtractor, cb.train_bn)

\* ------------------------------------------------------------------ optimizer and scheduler

\* MultiStepLR keeps Counter(milestones): how often `epoch` is a milestone.
MilestoneCount(milestones, epoch) ==
    Cardinality({k \in DOMAIN milestones : PyEq(milestones[k], PyInt(epoch))})

\* MultiStepLR.get_lr at last_epoch = epoch: every group's lr is multiplied by
\* gamma once per occurrence of the epoch among the milestones.
SchedulerGetLr(pgs, milestones, gamma, epoch) ==
    [k \in DOMAIN pgs |->
        [pgs[k] EXCEPT !.lr = @ + gamma * MilestoneCount(milestones, epoch)]]

\* TransferLearningModel.configure_optimizers: Adam over the parameters that are
\* trainable now, one group with lr = self.lr; constructing MultiStepLR takes
\* its first step (last_epoch = 0).
configure_optimizers(m, rg) ==
    SchedulerGetLr(<<[params |-> {p \in Params : rg[p]}, lr |-> m.lr]>>,
                   m.milestones, m.lr_scheduler_gamma, 0)

\* ------------------------------------------------------------------ the command line

\* The Namespace parse_args gives when no option is on the command line.
ArgDefaults ==
    [parsed             |-> TRUE,
     nb_epochs          |-> ArgEpochs,
     lr                 |-> ArgLr,
     lr_scheduler_gamma |-> ArgGamma,
     train_bn           |-> TRUE,
     milestones         |-> <<PyInt(ArgMilestone0), PyInt(ArgMilestone1)>>]

\* parser.parse_args() of get_args for the command lines of the model:
\* --milestones (type=list, no nargs) takes exactly one token and stores
\* list(token); a token left over is an "unrecognized arguments" error.
parse_args(av) ==
    IF av = << >> THEN [ok |-> TRUE, ns |-> ArgDefaults]
    ELSE IF av[1] # MILESTONES_FLAG \/ Len(av) # 2 THEN [ok |-> FALSE, ns |-> NoArgs]
    ELSE [ok |-> TRUE, ns |-> [ArgDefaults EXCEPT !.milestones = PyList(av[2])]]

\* The ways a user may write the two epochs a and b after --milestones.
CommandLines(a, b) ==
    { <<MILESTONES_FLAG, ToStr(a) \o ToStr(b)>>,
      <<MILESTONES_FLAG, ToStr(a) \o <<",">> \o ToStr(b)>>,
      <<MILESTONES_FLAG, ToStr(a) \o <<" ">> \o ToStr(b)>>,
      <<MILESTONES_FLAG, ToStr(a), ToStr(b)>> }

NoModel == [built |-> FALSE]

NoCallback == [built |-> FALSE]

NoMode == "none"

NoBatch == [preds_shape |-> << >>, target_shape |-> << >>]

\* ------------------------------------------------------------------ initial states

MetricIdle ==
    /\ metric_mode = NoMode
    /\ metric_data = << >>
    /\ metric_raised = FALSE
    /\ metric_last = NoBatch
    /\ metric_calls = 0
    /\ test_pc = "idle"

\* python computer_vision_fine_tuning.py [--milestones ...]
InitScript ==
    /\ entry = "script"
    /\ \/ given = << >> /\ argv = << >>
       \/ \E a \in 1..MaxMilestone :
            given = << >> /\ argv = <<MILESTONES_FLAG, ToStr(a)>>
       \/ \E a \in 1..MaxMilestone, b \in 1..MaxMilestone :
            a < b /\ given = <<a, b>> /\ argv \in CommandLines(a, b)
    /\ pc = "get_args"
    /\ args = NoArgs
    /\ model = NoModel
    /\ callback = NoCallback
    /\ max_epochs = 0
    /\ requires_grad = BuildModel

\* TransferLearningModel(milestones=(m0, m1), train_bn=tb), the callback built
\* with the same milestones and train_bn, Trainer(max_epochs=n, callbacks=[cb]).
InitApi ==
    /\ entry = "api"
    /\ given = << >>
    /\ argv = << >>
    /\ pc = "fit"
    /\ args = NoArgs
    /\ \E m0 \in 0..MaxMilestone, m1 \in 0..MaxMilestone, tb \in BOOLEAN :
         /\ model = [built |-> TRUE, milestones |-> <<PyInt(m0), PyInt(m1)>>,
                     lr |-> InitLr, lr_scheduler_gamma |-> InitGamma, train_bn |-> tb]
         /\ callback = [built |-> TRUE, milestones |-> <<PyInt(m0), PyInt(m1)>>,
                        train_bn |-> tb]
    /\ max_epochs \in 1..MaxEpochs
    /\ requires_grad = BuildModel

Init ==
    /\ InitScript \/ InitApi
    /\ param_groups = << >>
    /\ current_epoch = 0
    /\ last_epoch = -1
    /\ unfrozen_at = << >>
    /\ decayed_at = {}
    /\ MetricIdle

\* ------------------------------------------------------------------ the run

\* get_args(): parse the command line; argparse exits on an error.
GetArgs ==
    /\ pc = "get_args"
    /\ LET r == parse_args(argv)
       IN  /\ args' = r.ns
           /\ pc' = IF r.ok THEN "main" ELSE "exit"
    /\ UNCHANGED <<entry, argv, given, model, callback, max_epochs, requires_grad,
                   param_groups, current_epoch, last_epoch, unfrozen_at, decayed_at>>
    /\ UNCHANGED metricVars

\* main(args): the model takes **vars(args), the callback takes only
\* args.milestones (its train_bn keeps the default True), the trainer takes
\* max_epochs = args.nb_epochs.
Main ==
    /\ pc = "main"
    /\ model' = [built |-> TRUE, milestones |-> args.milestones, lr |-> args.lr,
                 lr_scheduler_gamma |-> args.lr_scheduler_gamma,
                 train_bn |-> args.train_bn]
    /\ callback' = [built |-> TRUE, milestones |-> args.milestones, train_bn |-> TRUE]
    /\ max_epochs' = args.nb_epochs
    /\ pc' = "fit"
    /\ UNCHANGED <<entry, argv, given, args, requires_grad, param_groups,
                   current_epoch, last_epoch, unfrozen_at, decayed_at>>
    /\ UNCHANGED metricVars

\* trainer.fit: on_before_accelerator_backend_setup calls freeze_before_training.
FreezeBeforeTraining ==
    /\ pc = "fit"
    /\ requires_grad' = freeze_before_training(callback, requires_grad)
    /\ pc' = "configure_optimizers"
    /\ UNCHANGED <<entry, argv, given, args, model, callback, max_epochs, param_groups,
                   current_epoch, last_epoch, unfrozen_at, decayed_at>>
    /\ UNCHANGED metricVars

\* trainer.fit: the optimizer and the scheduler are built after the freeze.
ConfigureOptimizers ==
    /\ pc = "configure_optimizers"
    /\ param_groups' = configure_optimizers(model, requires_grad)
    /\ last_epoch' = 0
    /\ decayed_at' = IF MilestoneCount(model.milestones, 0) > 0 THEN {0} ELSE {}
    /\ pc' = "epoch_start"
    /\ UNCHANGED <<entry, argv, given, args, model, callback, max_epochs, requires_grad,
                   current_epoch, unfrozen_at>>
    /\ UNCHANGED metricVars

\* BaseFinetuning.on_train_epoch_start: finetunning_function(pl_module,
\* trainer.current_epoch, optimizer, opt_idx); an exception ends the run.
OnTrainEpochStart ==
    /\ pc = "epoch_start"
    /\ LET r == finetunning_function(callback, requires_grad, param_groups, current_epoch)
       IN  /\ requires_grad' = r.rg
           /\ param_groups' = r.pgs
           /\ unfrozen_at' = IF r.unfroze THEN Append(unfrozen_at, current_epoch)
                             ELSE unfrozen_at
           /\ pc' = IF r.raised = NoRaise THEN "training" ELSE "crashed"
    /\ UNCHANGED <<entry, argv, given, args, model, callback, max_epochs,
                   current_epoch, last_epoch, decayed_at>>
    /\ UNCHANGED metricVars

\* The training and validation batches of the epoch.
TrainingEpoch ==
    /\ pc = "training"
    /\ pc' = "epoch_end"
    /\ UNCHANGED <<entry, argv, given, args, model, callback, max_epochs, requires_grad,
                   param_groups, current_epoch, last_epoch, unfrozen_at, decayed_at>>
    /\ UNCHANGED metricVars

\* End of the epoch: scheduler.step(), then the next epoch or the end of fit.
SchedulerStep ==
    /\ pc = "epoch_end"
    /\ last_epoch' = last_epoch + 1
    /\ param_groups' = SchedulerGetLr(param_groups, model.milestones,
                                      model.lr_scheduler_gamma, last_epoch + 1)
    /\ decayed_at' = IF param_groups' # param_groups
                     THEN decayed_at \cup {last_epoch + 1} ELSE decayed_at
    /\ current_epoch' = current_epoch + 1
    /\ pc' = IF current_epoch + 1 >= max_epochs THEN "done" ELSE "epoch_start"
    /\ UNCHANGED <<entry, argv, given, args, model, callback, max_epochs, requires_grad,
                   unfrozen_at>>
    /\ UNCHANGED metricVars

Next ==
    \/ GetArgs
    \/ Main
    \/ FreezeBeforeTraining
    \/ ConfigureOptimizers
    \/ OnTrainEpochStart
    \/ TrainingEpoch
    \/ SchedulerStep

Spec == Init /\ [][Next]_vars

\* ------------------------------------------------------------------ the AUROC metric

\* test_error_on_different_mode: torch.randn(10, 5) and torch.randint(0, 5, (10,))
TestN == 10

TestC == 5

\* The batches a metric is fed: binary data has preds (N,) and target (N,),
\* multi-class data preds (N, C) and target (N,), multi-label data preds (N, C)
\* and target (N, C).
BinaryBatch(n) == [preds_shape |-> <<n>>, target_shape |-> <<n>>]

MulticlassBatch(n, c) == [preds_shape |-> <<n, c>>, target_shape |-> <<n>>]

MultilabelBatch(n, c) == [preds_shape |-> <<n, c>>, target_shape |-> <<n, c>>]

Batches ==
    UNION { {BinaryBatch(n), MulticlassBatch(n, TestC), MultilabelBatch(n, TestC)} :
            n \in 1..MaxBatch }

\* The mode the metric finds in a batch, from the shapes of preds and target.
DataMode(batch) ==
    IF Len(batch.preds_shape) = Len(batch.target_shape) + 1 THEN "multi-class"
    ELSE IF Len(batch.preds_shape) = 1 THEN "binary"
    ELSE "multi-label"

\* AUROC.update that appends the batch before it compares the modes.
AurocUpdateAppendFirst(mode, data, batch) ==
    IF mode # NoMode /\ mode # DataMode(batch)
    THEN [mode |-> mode, data |-> Append(data, batch), raised |-> TRUE]
    ELSE [mode |-> DataMode(batch), data |-> Append(data, batch), raised |-> FALSE]

\* AUROC.update(preds, target): data of another mode than the metric's raises
\* ValueError ("The mode of data ... should be constant") and is not kept;
\* otherwise the batch is appended and the mode recorded.
AurocUpdate(mode, data, batch) ==
    IF mode # NoMode /\ mode # DataMode(batch)
    THEN [mode |-> mode, data |-> data, raised |-> TRUE]
    ELSE [mode |-> DataMode(batch), data |-> Append(data, batch), raised |-> FALSE]

TrainIdle ==
    /\ entry = "none"
    /\ argv = << >>
    /\ given = << >>
    /\ pc = "idle"
    /\ args = NoArgs
    /\ model = NoModel
    /\ callback = NoCallback
    /\ max_epochs = 0
    /\ requires_grad = BuildModel
    /\ param_groups = << >>
    /\ current_epoch = 0
    /\ last_epoch = -1
    /\ unfrozen_at = << >>
    /\ decayed_at = {}

\* metric = AUROC(): no mode, no data; either fed freely or by the test.
InitMetric ==
    /\ TrainIdle
    /\ metric_mode = NoMode
    /\ metric_data = << >>
    /\ metric_raised = FALSE
    /\ metric_last = NoBatch
    /\ metric_calls = 0
    /\ test_pc \in {"free", "test"}

\* metric.update(preds, target) with any batch.
Update ==
    /\ test_pc = "free"
    /\ metric_calls < MaxUpdates
    /\ \E batch \in Batches :
         LET r == AurocUpdate(metric_mode, metric_data, batch)
         IN  /\ metric_mode' = r.mode
             /\ metric_data' = r.data
             /\ metric_raised' = r.raised
             /\ metric_last' = batch
    /\ metric_calls' = metric_calls + 1
    /\ UNCHANGED test_pc
    /\ UNCHANGED trainVars

\* test_error_on_different_mode: pass in multi-class data.
TestUpdateMulticlass ==
    /\ test_pc = "test"
    /\ LET batch == MulticlassBatch(TestN, TestC)
           r == AurocUpdate(metric_mode, metric_data, batch)
       IN  /\ metric_mode' = r.mode
           /\ metric_data' = r.data
           /\ metric_raised' = r.raised
           /\ metric_last' = batch
           /\ test_pc' = IF r.raised THEN "failed" ELSE "expect_raise"
    /\ metric_calls' = metric_calls + 1
    /\ UNCHANGED trainVars

\* test_error_on_different_mode: pass in multi-label data under pytest.raises.
TestUpdateMultilabel ==
    /\ test_pc = "expect_raise"
    /\ LET batch == MultilabelBatch(TestN, TestC)
           r == AurocUpdate(metric_mode, metric_data, batch)
       IN  /\ metric_mode' = r.mode
           /\ metric_data' = r.data
           /\ metric_raised' = r.raised
           /\ metric_last' = batch
           /\ test_pc' = IF r.raised THEN "passed" ELSE "failed"
    /\ metric_calls' = metric_calls + 1
    /\ UNCHANGED trainVars

NextMetric ==
    \/ Update
    \/ TestUpdateMulticlass
    \/ TestUpdateMultilabel

SpecMetric == InitMetric /\ [][NextMetric]_vars

\* ------------------------------------------------------------------ properties

IsIntPair(ms) == Len(ms) = 2 /\ \A k \in 1..2 : ms[k].tag = "int"

\* Only BatchNorm parameters of the feature extractor may be trainable, and
\* only when train_bn.
Frozen(rg, module, train_bn) == \A p \in module : rg[p] => (IsBN(p) /\ train_bn)

Trainable(rg, module) == \A p \in module : rg[p]

\* The three stages at epoch e for integer milestones m0, m1.
ThreeStages(e, m0, m1) ==
    /\ e < m0 =>
         /\ Frozen(requires_grad, FeatureExtractor, callback.train_bn)
         /\ Len(param_groups) = 1
    /\ (m0 <= e /\ e < m1) =>
         /\ Trainable(requires_grad, LAST5)
         /\ Frozen(requires_grad, REMAINING, callback.train_bn)
         /\ Len(param_groups) = 2
    /\ e >= m1 =>
         /\ Trainable(requires_grad, FeatureExtractor)
         /\ Len(param_groups) = 3

\* C1 as stated: while an epoch e is trained with the integer milestones
\* (m0, m1), the feature extractor is frozen and the optimizer has 1 group for
\* e < m0, part of it is unfrozen and there are 2 groups for m0 <= e < m1, all
\* of it is unfrozen and there are 3 groups for e >= m1.
C1_ThreeStagesAnyPair ==
    (pc = "training" /\ IsIntPair(callback.milestones)) =>
        ThreeStages(current_epoch, callback.milestones[1].i, callback.milestones[2].i)

\* C1 amended: the three stages (1, 2, 3 parameter groups; frozen, partly
\* unfrozen, fully unfrozen) hold for integer milestones with m0 < m1.
C1_ThreeStagesIncreasing ==
    (/\ pc = "training"
     /\ IsIntPair(callback.milestones)
     /\ callback.milestones[1].i < callback.milestones[2].i) =>
        ThreeStages(current_epoch, callback.milestones[1].i, callback.milestones[2].i)

\* An epoch of the third stage is being trained with three parameter groups,
\* after epochs of the first and the second stage.
C1_Witness ==
    /\ pc = "training"
    /\ IsIntPair(callback.milestones)
    /\ 0 < callback.milestones[1].i
    /\ callback.milestones[1].i < callback.milestones[2].i
    /\ current_epoch > callback.milestones[2].i
    /\ Len(param_groups) = 3
    /\ unfrozen_at = <<callback.milestones[1].i, callback.milestones[2].i>>

\* The script run with no command-line option.
DefaultRun == entry = "script" /\ argv = << >>

\* C2 as stated: in the example's run the single group has lr 1e-2 in epochs
\* 0 to 4; in epochs 5 to 9 the first group has 1e-3 and the new one 1e-4;
\* from epoch 10 the classifier's group has 1e-4 and the groups of the
\* pre-trained network 1e-5.
C2_DocumentedLearningRates ==
    (DefaultRun /\ pc = "training") =>
        /\ current_epoch < DocMilestone0 =>
             /\ Len(param_groups) = 1
             /\ param_groups[1].lr = DocLr
        /\ (DocMilestone0 <= current_epoch /\ current_epoch < DocMilestone1) =>
             /\ Len(param_groups) = 2
             /\ param_groups[1].lr = DocLr - 1
             /\ param_groups[2].lr = DocLr - 2
        /\ current_epoch >= DocMilestone1 =>
             \A k \in DOMAIN param_groups :
                 param_groups[k].lr =
                     IF "fc" \in param_groups[k].params THEN DocLr - 2 ELSE DocLr - 3

\* C3 as stated: the script run with no option trains 15 epochs, keeps the
\* feature extractor frozen during epochs 0 to 4, unfreezes first at epoch 5
\* and then at epoch 10.
C3_DocumentedStages ==
    (DefaultRun /\ pc \in {"training", "done"}) =>
        /\ max_epochs = DocEpochs
        /\ (pc = "training" /\ current_epoch < DocMilestone0) =>
               Frozen(requires_grad, FeatureExtractor, callback.train_bn)
        /\ \A k \in DOMAIN unfrozen_at :
               unfrozen_at[k] = IF k = 1 THEN DocMilestone0 ELSE DocMilestone1
        /\ pc = "done" => Len(unfrozen_at) = 2

\* C6 as stated: when the user gives two epochs with --milestones, parsing
\* succeeds and args.milestones holds these two epoch numbers; the callback
\* unfreezes at exactly these two epochs and the scheduler decays the
\* learning rates at the same two epochs.
C6_MilestonesOption ==
    (entry = "script" /\ given # << >> /\ pc # "get_args") =>
        /\ pc # "exit"
        /\ args.milestones = <<PyInt(given[1]), PyInt(given[2])>>
        /\ pc = "done" =>
             /\ unfrozen_at = given
             /\ decayed_at = {given[1], given[2]}

====
